---- MODULE Spec2Model ----
(***************************************************************************)
(* FHIR bundle-to-graph pipeline (Buddhilive/fhir-graph-injector).         *)
(*                                                                         *)
(* The graph store is a bag of nodes and a bag of relationships.  Strings  *)
(* are sequences of one-character strings, so that Cypher's CONTAINS,      *)
(* Python's str.replace / str.split and the lexicographic ORDER BY are     *)
(* computed on characters.  Python None and Cypher null are the value      *)
(* NULL; a property that is NULL is an absent property, as in Neo4j.       *)
(***************************************************************************)
EXTENDS Integers, Sequences, FiniteSets, TLC

VARIABLES
    nodes,      \* bag of node records (record -> number of such nodes)
    edges,      \* bag of relationship records
    pc,         \* position of process_directory: files, temporal, done, failed
    filesLeft,  \* files of the directory listing not yet processed
    refIn,      \* extract_reference_id: the reference given
    refOut,     \* extract_reference_id: the value returned
    errorLogged, \* process_fhir_bundle has logged "Error processing ..."
    store,      \* the graph store: "up", or "down" once a query has failed
                \* with ServiceUnavailable
    dirExists,  \* the directory given to process_directory exists
    listing,    \* the files glob returned, in the order it returned them,
                \* where the directory's contents are fixed before the run;
                \* <<>> where each file's content is chosen when it is read
    arg,        \* the argument of the operation a specification calls
    result,     \* what that operation returned, <<>> before it has
    conn,       \* the driver's connection: "open" or "closed"
    calls       \* the builder methods main() has called, in order

vars == <<nodes, edges, pc, filesLeft, refIn, refOut, errorLogged, store,
          dirExists, listing, arg, result, conn, calls>>

(***************************************************************************)
(* Strings                                                                 *)
(***************************************************************************)
NULL == <<"null">>

URN == <<"u", "r", "n", ":", "u", "u", "i", "d", ":">>

\* t occurs in s at position i
OccursAt(s, t, i) ==
    /\ i >= 1
    /\ i + Len(t) - 1 <= Len(s)
    /\ SubSeq(s, i, i + Len(t) - 1) = t

\* Python `t in s`
Contains(s, t) == \E i \in 1..(Len(s) + 1) : OccursAt(s, t, i)

\* Cypher `a CONTAINS b`: null when either side is null, and a null
\* predicate drops the row
CypherContains(a, b) == a # NULL /\ b # NULL /\ Contains(a, b)

\* code points of the characters that occur in timestamps
CodePoint(c) ==
    CASE c = "-" -> 45
      [] c = "0" -> 48
      [] c = "1" -> 49
      [] c = "2" -> 50
      [] c = "9" -> 57
      [] OTHER -> 97

\* lexicographic order of two strings, as Neo4j orders string values
RECURSIVE StrLeq(_, _)
StrLeq(s, t) ==
    IF s = <<>> THEN TRUE
    ELSE IF t = <<>> THEN FALSE
    ELSE IF Head(s) = Head(t) THEN StrLeq(Tail(s), Tail(t))
    ELSE CodePoint(Head(s)) < CodePoint(Head(t))

\* ORDER BY ... ASC: null sorts after every value
OrderAsc(a, b) ==
    IF b = NULL THEN TRUE
    ELSE IF a = NULL THEN FALSE
    ELSE StrLeq(a, b)

\* ORDER BY ... DESC: the reverse order, null first
OrderDesc(a, b) == OrderAsc(b, a)

(***************************************************************************)
(* Bags                                                                    *)
(***************************************************************************)
EmptyGraphBag == <<>>

BagAdd(bag, x) ==
    IF x \in DOMAIN bag
    THEN [bag EXCEPT ![x] = @ + 1]
    ELSE [y \in DOMAIN bag \cup {x} |-> IF y = x THEN 1 ELSE bag[y]]

RECURSIVE BagSize(_, _)
BagSize(bag, S) ==
    IF S = {} THEN 0
    ELSE LET x == CHOOSE y \in S : TRUE
         IN bag[x] + BagSize(bag, S \ {x})

(***************************************************************************)
(* Resources and nodes                                                     *)
(*                                                                         *)
(* A resource is one entry of a bundle, given by the fields the mappers    *)
(* read: resource["id"], resource["onsetDateTime"] and the reference       *)
(* strings under subject, encounter and reasonReference[0] (NULL when the  *)
(* key is absent).  A node carries the properties the relationship and     *)
(* temporal queries read.                                                  *)
(***************************************************************************)
NodeTypes ==
    <<"Patient", "Practitioner", "Organization", "Encounter",
      "Condition", "Observation", "MedicationRequest", "Procedure">>

Resource(type, id, onset, subject, encounter, reason) ==
    [resourceType |-> type, id |-> id, onsetDateTime |-> onset,
     subject |-> subject, encounter |-> encounter, reasonReference |-> reason]

Node(label, id, onset, patient_ref, encounter_ref, reason_ref) ==
    [label |-> label, id |-> id, onsetDateTime |-> onset,
     patient_ref |-> patient_ref, encounter_ref |-> encounter_ref,
     reason_ref |-> reason_ref]

patient_data(r) == Node("Patient", r.id, NULL, NULL, NULL, NULL)

practitioner_data(r) == Node("Practitioner", r.id, NULL, NULL, NULL, NULL)

org_data(r) == Node("Organization", r.id, NULL, NULL, NULL, NULL)

encounter_data(r) == Node("Encounter", r.id, NULL, r.subject, NULL, NULL)

condition_data(r) ==
    Node("Condition", r.id, r.onsetDateTime, r.subject, r.encounter, NULL)

observation_data(r) ==
    Node("Observation", r.id, NULL, r.subject, r.encounter, NULL)

med_data(r) ==
    Node("MedicationRequest", r.id, NULL, r.subject, r.encounter,
         r.reasonReference)

proc_data(r) ==
    Node("Procedure", r.id, NULL, r.subject, r.encounter, r.reasonReference)

\* the parameters the mapper of r's resource type passes to its query
NodeData(r) ==
    CASE r.resourceType = "Patient" -> patient_data(r)
      [] r.resourceType = "Practitioner" -> practitioner_data(r)
      [] r.resourceType = "Organization" -> org_data(r)
      [] r.resourceType = "Encounter" -> encounter_data(r)
      [] r.resourceType = "Condition" -> condition_data(r)
      [] r.resourceType = "Observation" -> observation_data(r)
      [] r.resourceType = "MedicationRequest" -> med_data(r)
      [] OTHER -> proc_data(r)

NodesOf(ns, label) == {n \in DOMAIN ns : n.label = label}

\* count(n) of MATCH (n:label)
NodeCount(ns, label) == BagSize(ns, NodesOf(ns, label))

\* get_summary: the dictionary it returns, one key per node type with the
\* count of the nodes of that type
get_summary(ns) ==
    [label \in {NodeTypes[k] : k \in 1..Len(NodeTypes)} |->
        NodeCount(ns, label)]

\* CREATE (n:label {id: ...}) SET ...: a new node whatever exists
CreateNode(ns, n) == BagAdd(ns, n)

\* MERGE (n:label {id: $id}) ON CREATE SET ...: a node that exists keeps
\* its properties
MergeNodeOnCreate(ns, n) ==
    IF \E m \in DOMAIN ns : m.label = n.label /\ m.id = n.id
    THEN ns
    ELSE BagAdd(ns, n)

\* MERGE (n:label {id: $id}) SET n.prop = $prop, ...: every node of the
\* label with this id gets the given properties; one is created if none
\* exists
MergeNode(ns, n) ==
    LET matched == {m \in DOMAIN ns : m.label = n.label /\ m.id = n.id}
        kept == DOMAIN ns \ matched
    IN IF matched = {}
       THEN BagAdd(ns, n)
       ELSE [m \in kept \cup {n} |->
                IF m = n THEN BagSize(ns, matched) ELSE ns[m]]

\* entries of the bundle in the order the eight passes visit them
RECURSIVE PassOrder(_, _)
PassOrder(bundle, k) ==
    IF k > Len(NodeTypes) THEN <<>>
    ELSE SelectSeq(bundle, LAMBDA r : r.resourceType = NodeTypes[k])
            \o PassOrder(bundle, k + 1)

\* the upserts of one bundle, up to the first that raises: MERGE refuses a
\* null key ("Cannot merge ... because of null property value for 'id'"),
\* and the exception leaves the loop and every later pass
RECURSIVE UpsertAll(_, _)
UpsertAll(ns, rs) ==
    IF rs = <<>> THEN [nodes |-> ns, ok |-> TRUE]
    ELSE IF Head(rs).id = NULL THEN [nodes |-> ns, ok |-> FALSE]
    ELSE UpsertAll(MergeNode(ns, NodeData(Head(rs))), Tail(rs))

\* process_fhir_bundle on a file that parses to `bundle`: the exception of
\* a failed upsert is caught and logged
ProcessFhirBundle(ns, bundle) == UpsertAll(ns, PassOrder(bundle, 1)).nodes

\* what json.load returns for a file holding a JSON object: its top-level
\* resourceType and its entry list
ParsedFile(marker, bundle) == [resourceType |-> marker, entry |-> bundle]

\* process_fhir_bundle on the parsed object `data`: only data["entry"] is
\* read; ok is FALSE when the except branch logged an error
process_fhir_bundle(ns, data) == UpsertAll(ns, PassOrder(data.entry, 1))

(***************************************************************************)
(* Relationships                                                           *)
(*                                                                         *)
(* A relationship joins two nodes, named by label and id, and carries the  *)
(* `date` property (NULL for the types that have none).                    *)
(***************************************************************************)
Key(n) == [label |-> n.label, id |-> n.id]

Edge(type, src, dst, date) ==
    [type |-> type, src |-> Key(src), dst |-> Key(dst), date |-> date]

EdgesOf(es, type) == {e \in DOMAIN es : e.type = type}

\* count(r) of MATCH ()-[r:type]->()
EdgeCount(es, type) == BagSize(es, EdgesOf(es, type))

\* CREATE (a)-[:T {date: d}]->(b): a new relationship whatever exists
CreateEdge(es, e) == BagAdd(es, e)

\* MERGE (a)-[:T {date: d}]->(b): created unless a relationship of this
\* type and with these properties already joins the two nodes
MergeEdge(es, e) == IF e \in DOMAIN es THEN es ELSE BagAdd(es, e)

RECURSIVE MergeEdges(_, _)
MergeEdges(es, new) ==
    IF new = {} THEN es
    ELSE LET e == CHOOSE x \in new : TRUE
         IN MergeEdges(MergeEdge(es, e), new \ {e})

\* the nine queries of create_relationships, in the order they run:
\* MATCH (s:src), (d:dst) WHERE holder.field CONTAINS other.id
\* MERGE (s)-[:type]->(d); `holder` is the end whose reference is read
RelQueries ==
    << [type |-> "HASENCOUNTER", src |-> "Patient", dst |-> "Encounter",
        holder |-> "dst", field |-> "patient_ref", dated |-> FALSE],
       [type |-> "HASOBSERVATION", src |-> "Encounter", dst |-> "Observation",
        holder |-> "dst", field |-> "encounter_ref", dated |-> FALSE],
       [type |-> "REVEALEDCONDITION", src |-> "Encounter", dst |-> "Condition",
        holder |-> "dst", field |-> "encounter_ref", dated |-> FALSE],
       [type |-> "HASCONDITION", src |-> "Patient", dst |-> "Condition",
        holder |-> "dst", field |-> "patient_ref", dated |-> TRUE],
       [type |-> "TREATMENTFOR", src |-> "MedicationRequest",
        dst |-> "Condition",
        holder |-> "src", field |-> "reason_ref", dated |-> FALSE],
       [type |-> "HASMEDICATION", src |-> "Patient",
        dst |-> "MedicationRequest",
        holder |-> "dst", field |-> "patient_ref", dated |-> FALSE],
       [type |-> "PROCEDUREFORTREATMENT", src |-> "Procedure",
        dst |-> "Condition",
        holder |-> "src", field |-> "reason_ref", dated |-> FALSE],
       [type |-> "HASPROCEDURE", src |-> "Encounter", dst |-> "Procedure",
        holder |-> "dst", field |-> "encounter_ref", dated |-> FALSE],
       [type |-> "HASPROCEDURE", src |-> "Patient", dst |-> "Procedure",
        holder |-> "dst", field |-> "patient_ref", dated |-> FALSE] >>

StructuralTypes == {RelQueries[i].type : i \in 1..Len(RelQueries)}

\* the WHERE clause of the relationship queries
RefMatches(ref, id) == CypherContains(ref, id)

\* the rows MATCH ... WHERE yields for query q
RelRows(ns, q) ==
    {row \in NodesOf(ns, q.src) \X NodesOf(ns, q.dst) :
        IF q.holder = "dst"
        THEN RefMatches(row[2][q.field], row[1].id)
        ELSE RefMatches(row[1][q.field], row[2].id)}

\* one query of create_relationships, an auto-commit transaction.  MERGE
\* refuses a null property value ("Cannot merge the following relationship
\* because of null property value for 'date'"): the transaction is rolled
\* back and the exception reaches the caller
RunRelQuery(ns, es, q) ==
    LET rows == RelRows(ns, q)
        new == {Edge(q.type, row[1], row[2],
                     IF q.dated THEN row[2].onsetDateTime ELSE NULL) :
                    row \in rows}
    IN IF q.dated /\ \E row \in rows : row[2].onsetDateTime = NULL
       THEN [edges |-> es, ok |-> FALSE]
       ELSE [edges |-> MergeEdges(es, new), ok |-> TRUE]

\* create_relationships from query k on: the first query that raises ends it
RECURSIVE RunRelQueries(_, _, _)
RunRelQueries(ns, es, k) ==
    IF k > Len(RelQueries) THEN [edges |-> es, ok |-> TRUE]
    ELSE LET r == RunRelQuery(ns, es, RelQueries[k])
         IN IF r.ok THEN RunRelQueries(ns, r.edges, k + 1) ELSE r

CreateRelationships(ns, es) == RunRelQueries(ns, es, 1)

(***************************************************************************)
(* Temporal relationships                                                  *)
(*                                                                         *)
(* Each of the three queries matches the HASCONDITION relationships,       *)
(* orders the rows by the condition's onsetDateTime and groups them by     *)
(* patient.  Cypher leaves the order of rows with equal sort keys open, so *)
(* each query may see any order that ORDER BY allows.                      *)
(***************************************************************************)
\* the Condition node a HASCONDITION relationship ends at
CondOf(ns, e) ==
    CHOOSE n \in NodesOf(ns, "Condition") : n.id = e.dst.id

\* the patients MATCH (p:Patient)-[:HASCONDITION]->(c:Condition) yields
LinkedPatients(es) == {e.src : e \in EdgesOf(es, "HASCONDITION")}

\* the rows of patient p, one per HASCONDITION relationship
RowsOf(es, p) == {e \in EdgesOf(es, "HASCONDITION") : e.src = p}

\* ORDER BY c.onsetDateTime ASC | DESC: may a row with key a precede one
\* with key b
Before(direction, a, b) ==
    IF direction = "ASC" THEN OrderAsc(a, b) ELSE OrderDesc(a, b)

\* collect(c)[0] after ORDER BY: a row no other row must precede
Heads(ns, es, p, direction) ==
    {e \in RowsOf(es, p) :
        \A f \in RowsOf(es, p) :
            Before(direction, CondOf(ns, e).onsetDateTime,
                   CondOf(ns, f).onsetDateTime)}

HeadChoices(ns, es, direction) ==
    {pick \in [LinkedPatients(es) -> EdgesOf(es, "HASCONDITION")] :
        \A p \in LinkedPatients(es) : pick[p] \in Heads(ns, es, p, direction)}

\* the rows of p as ORDER BY c.onsetDateTime DESC would leave them
SortedRowsDescending(ns, es, p) ==
    LET R == RowsOf(es, p)
        n == Cardinality(R)
    IN {s \in [1..n -> R] :
          /\ \A i, j \in 1..n : i # j => s[i] # s[j]
          /\ \A i \in 1..(n - 1) :
                OrderDesc(CondOf(ns, s[i]).onsetDateTime,
                          CondOf(ns, s[i + 1]).onsetDateTime)}

\* collect(c) after ORDER BY c.onsetDateTime ASC: the rows of p in an order
\* that ORDER BY allows
SortedRows(ns, es, p) ==
    LET R == RowsOf(es, p)
        n == Cardinality(R)
    IN {s \in [1..n -> R] :
          /\ \A i, j \in 1..n : i # j => s[i] # s[j]
          /\ \A i \in 1..(n - 1) :
                OrderAsc(CondOf(ns, s[i]).onsetDateTime,
                         CondOf(ns, s[i + 1]).onsetDateTime)}

ChainChoices(ns, es) ==
    LET P == LinkedPatients(es)
    IN {ord \in [P -> UNION {SortedRows(ns, es, p) : p \in P}] :
          \A p \in P : ord[p] \in SortedRows(ns, es, p)}

\* MERGE (p)-[:type {date: c.onsetDateTime}]->(c) for the picked row of
\* each patient (FIRSTCONDITION, LATESTCONDITION)
MergeHeads(ns, es, type, pick) ==
    LET new == {Edge(type, [label |-> "Patient", id |-> p.id],
                     CondOf(ns, pick[p]),
                     CondOf(ns, pick[p]).onsetDateTime) : p \in DOMAIN pick}
    IN IF \E e \in new : e.date = NULL
       THEN [edges |-> es, ok |-> FALSE]
       ELSE [edges |-> MergeEdges(es, new), ok |-> TRUE]

\* UNWIND range(0, size(conditions) - 2) AS i
\* MERGE (conditions[i])-[:NEXTCONDITION {date: next.onsetDateTime}]->(next)
MergeChains(ns, es, ord) ==
    LET new == UNION {{Edge("NEXTCONDITION", CondOf(ns, ord[p][i]),
                            CondOf(ns, ord[p][i + 1]),
                            CondOf(ns, ord[p][i + 1]).onsetDateTime) :
                          i \in 1..(Len(ord[p]) - 1)} : p \in DOMAIN ord}
    IN IF \E e \in new : e.date = NULL
       THEN [edges |-> es, ok |-> FALSE]
       ELSE [edges |-> MergeEdges(es, new), ok |-> TRUE]

\* create_temporal_relationships: the three queries in order, ended by the
\* first that raises
CreateTemporalRelationships(ns, es) ==
    {IF ~ MergeHeads(ns, es, "FIRSTCONDITION", first).ok
     THEN MergeHeads(ns, es, "FIRSTCONDITION", first)
     ELSE LET es1 == MergeHeads(ns, es, "FIRSTCONDITION", first).edges
              r2 == MergeHeads(ns, es1, "LATESTCONDITION", latest)
          IN IF ~ r2.ok THEN r2 ELSE MergeChains(ns, r2.edges, ord) :
        first \in HeadChoices(ns, es, "ASC"),
        latest \in HeadChoices(ns, es, "DESC"),
        ord \in ChainChoices(ns, es)}

(***************************************************************************)
(* Reference resolver of the v2 injector                                   *)
(***************************************************************************)
\* Python reference.replace("urn:uuid:", ""): every occurrence, left to right
RECURSIVE RemoveUrn(_)
RemoveUrn(s) ==
    IF s = <<>> THEN <<>>
    ELSE IF OccursAt(s, URN, 1)
         THEN RemoveUrn(SubSeq(s, Len(URN) + 1, Len(s)))
         ELSE <<Head(s)>> \o RemoveUrn(Tail(s))

\* Python reference.split("/")[-1]: what follows the last "/"
RECURSIVE LastSegment(_)
LastSegment(s) ==
    IF s = <<>> THEN <<>>
    ELSE IF s[Len(s)] = "/" THEN <<>>
    ELSE Append(LastSegment(SubSeq(s, 1, Len(s) - 1)), s[Len(s)])

\* Python reference.split("/")[0]: what precedes the first "/"
RECURSIVE FirstSegment(_)
FirstSegment(s) ==
    IF s = <<>> THEN <<>>
    ELSE IF Head(s) = "/" THEN <<>>
    ELSE <<Head(s)>> \o FirstSegment(Tail(s))

\* the resolver with split("/")[0] for split("/")[-1]
extract_reference_id_first(reference) ==
    IF reference = NULL \/ reference = <<>> THEN <<>>
    ELSE IF Contains(reference, URN) THEN RemoveUrn(reference)
    ELSE IF Contains(reference, <<"/">>) THEN FirstSegment(reference)
    ELSE reference

extract_reference_id(reference) ==
    IF reference = NULL \/ reference = <<>> THEN <<>>
    ELSE IF Contains(reference, URN) THEN RemoveUrn(reference)
    ELSE IF Contains(reference, <<"/">>) THEN LastSegment(reference)
    ELSE reference

(***************************************************************************)
(* Inputs                                                                  *)
(***************************************************************************)
MaxFiles == 3

MaxPieces == 3

SeqsUpTo(S, n) == UNION {[1..k -> S] : k \in 0..n}

\* the entry lists of a file: no entry, one entry, or two entries in either
\* order
BundlesOver(R) ==
    {<<>>} \cup {<<r>> : r \in R} \cup {<<r, q>> : r \in R, q \in R}

Ref(id) == URN \o id

\* ids; none shares a character with "urn:uuid:", so a reference matches an
\* id only through the id it names
PatientIds == {<<"a">>, <<"a", "b">>}

Onset2019 == <<"2", "0", "1", "9", "-", "0", "6", "-", "1", "5">>

Onset2020 == <<"2", "0", "2", "0", "-", "0", "1", "-", "0", "1">>

\* the resources the files of the directory are made of
Resources ==
    {Resource("Patient", id, NULL, NULL, NULL, NULL) : id \in {<<"a">>, NULL}}
    \cup {Resource("Practitioner", <<"g">>, NULL, NULL, NULL, NULL)}
    \cup {Resource("Organization", <<"h">>, NULL, NULL, NULL, NULL)}
    \cup {Resource("Encounter", <<"x">>, NULL, Ref(<<"a">>), NULL, NULL)}
    \cup {Resource("Condition", id, Onset2020, Ref(<<"a">>), Ref(<<"x">>), NULL) :
            id \in {<<"c">>, <<"c", "e">>}}
    \cup {Resource("Condition", <<"c">>, NULL, Ref(<<"a">>), NULL, NULL)}
    \cup {Resource("Observation", <<"o">>, NULL, Ref(<<"a">>), Ref(<<"x">>), NULL)}
    \cup {Resource("MedicationRequest", <<"m">>, NULL, Ref(<<"a">>), NULL, reason) :
            reason \in {NULL, Ref(<<"c", "e">>)}}
    \cup {Resource("Procedure", <<"q">>, NULL, Ref(<<"a">>), Ref(<<"x">>),
                   Ref(<<"c">>))}

Bundles == BundlesOver(Resources)

\* the top-level resourceType of a file: "Bundle", or anything else
Markers == {"Bundle", "Collection"}

\* a directory of patients and their conditions: two patients, the id of one
\* a prefix of the other's, and three conditions, each with its own onset or
\* an empty one, the first also without onset or without subject
Onset2021 == <<"2", "0", "2", "1", "-", "0", "1", "-", "0", "1">>

ChainConditionIds == {<<"c", "1">>, <<"c", "2">>, <<"c", "3">>}

ChainOnsets(id) ==
    CASE id = <<"c", "1">> -> {<<>>, Onset2020}
      [] id = <<"c", "2">> -> {<<>>, Onset2019}
      [] OTHER -> {<<>>, Onset2021}

ChainResources ==
    {Resource("Patient", id, NULL, NULL, NULL, NULL) : id \in PatientIds}
    \cup UNION {{Resource("Condition", id, onset, Ref(p), NULL, NULL) :
                    onset \in ChainOnsets(id), p \in PatientIds} :
                 id \in ChainConditionIds}
    \cup {Resource("Condition", <<"c", "1">>, NULL, Ref(<<"a", "b">>), NULL, NULL),
          Resource("Condition", <<"c", "1">>, Onset2020, NULL, NULL, NULL)}

ChainBundles == BundlesOver(ChainResources)

\* reference strings: up to MaxPieces pieces
Pieces == {URN, <<"/">>, <<"C", "o", "n", "d">>, <<"a", "1">>, <<"b">>}

RECURSIVE Concat(_)
Concat(ps) == IF ps = <<>> THEN <<>> ELSE Head(ps) \o Concat(Tail(ps))

References == {NULL} \cup {Concat(ps) : ps \in SeqsUpTo(Pieces, MaxPieces)}

(***************************************************************************)
(* process_directory                                                       *)
(***************************************************************************)
Init ==
    /\ nodes = EmptyGraphBag
    /\ edges = EmptyGraphBag
    /\ pc = "files"
    /\ filesLeft \in 0..MaxFiles
    /\ refIn = NULL
    /\ refOut = NULL
    /\ errorLogged = FALSE
    /\ store = "up"
    /\ dirExists = TRUE
    /\ listing = <<>>
    /\ arg = <<>>
    /\ result = <<>>
    /\ conn = "open"
    /\ calls = <<>>

\* one iteration of the loop over the listing, on a file that parses to a
\* bundle of B
ProcessFileOf(B) ==
    /\ pc = "files"
    /\ filesLeft > 0
    /\ store = "up"
    /\ \E marker \in Markers, bundle \in B :
          LET r == process_fhir_bundle(nodes, ParsedFile(marker, bundle))
          IN /\ nodes' = r.nodes
             /\ errorLogged' = (errorLogged \/ ~ r.ok)
    /\ filesLeft' = filesLeft - 1
    /\ UNCHANGED <<edges, pc, refIn, refOut, store, dirExists, listing, arg, result, conn, calls>>

ProcessFile == ProcessFileOf(Bundles)

ProcessChainFile == ProcessFileOf(ChainBundles)

\* one iteration on a file json.load rejects: logged, nothing written
SkipFile ==
    /\ pc = "files"
    /\ filesLeft > 0
    /\ filesLeft' = filesLeft - 1
    /\ errorLogged' = TRUE
    /\ UNCHANGED <<nodes, edges, pc, refIn, refOut, store, dirExists, listing, arg, result, conn, calls>>

\* create_relationships called inside the loop, after each file
RelationshipsPerFile ==
    /\ pc = "files"
    /\ store = "up"
    /\ LET r == CreateRelationships(nodes, edges)
       IN /\ edges' = r.edges
          /\ pc' = IF ~ r.ok THEN "failed"
                   ELSE IF filesLeft = 0 THEN "temporal" ELSE "files"
    /\ UNCHANGED <<nodes, filesLeft, refIn, refOut, errorLogged, store,
                   dirExists, listing, arg, result, conn, calls>>

\* after the loop: create_relationships; its exception leaves
\* process_directory
Relationships ==
    /\ pc = "files"
    /\ filesLeft = 0
    /\ store = "up"
    /\ LET r == CreateRelationships(nodes, edges)
       IN /\ edges' = r.edges
          /\ pc' = IF r.ok THEN "temporal" ELSE "failed"
    /\ UNCHANGED <<nodes, filesLeft, refIn, refOut, errorLogged, store,
                   dirExists, listing, arg, result, conn, calls>>

\* then create_temporal_relationships
Temporal ==
    /\ pc = "temporal"
    /\ store = "up"
    /\ \E r \in CreateTemporalRelationships(nodes, edges) :
          /\ edges' = r.edges
          /\ pc' = IF r.ok THEN "done" ELSE "failed"
    /\ UNCHANGED <<nodes, filesLeft, refIn, refOut, errorLogged, store,
                   dirExists, listing, arg, result, conn, calls>>

Next == ProcessFile \/ SkipFile \/ Relationships \/ Temporal

Spec == Init /\ [][Next]_vars

\* process_directory on a directory of patients and conditions
NextChain == ProcessChainFile \/ SkipFile \/ Relationships \/ Temporal

SpecChain == Init /\ [][NextChain]_vars

(***************************************************************************)
(* process_directory with a store that may stop answering and a directory  *)
(* that may be missing                                                     *)
(*                                                                         *)
(* A query sent to a store that does not answer raises ServiceUnavailable. *)
(* Inside process_fhir_bundle the exception meets `except Exception`;      *)
(* inside create_relationships and create_temporal_relationships nothing   *)
(* catches it.  The driver does not send an auto-commit query again.       *)
(***************************************************************************)
\* Path.glob on a directory that does not exist yields no file and raises
\* nothing
InitFail ==
    /\ nodes = EmptyGraphBag
    /\ edges = EmptyGraphBag
    /\ pc = "files"
    /\ dirExists \in BOOLEAN
    /\ filesLeft \in (IF dirExists THEN 0..MaxFiles ELSE {0})
    /\ refIn = NULL
    /\ refOut = NULL
    /\ errorLogged = FALSE
    /\ store = "up"
    /\ listing = <<>>
    /\ arg = <<>>
    /\ result = <<>>
    /\ conn = "open"
    /\ calls = <<>>

\* a file during whose upserts the store stops answering: the upserts
\* before the failing one are committed, the exception is logged and the
\* loop goes on
ProcessFileStoreFails ==
    /\ pc = "files"
    /\ filesLeft > 0
    /\ store = "up"
    /\ \E bundle \in Bundles :
          LET rs == PassOrder(bundle, 1)
          IN \E k \in 1..Len(rs) :
                LET r == UpsertAll(nodes, SubSeq(rs, 1, k - 1))
                IN /\ r.ok
                   /\ nodes' = r.nodes
    /\ store' = "down"
    /\ errorLogged' = TRUE
    /\ filesLeft' = filesLeft - 1
    /\ UNCHANGED <<edges, pc, refIn, refOut, dirExists, listing, arg, result, conn, calls>>

\* a file read while the store is down: its first query, if it has one,
\* raises and is logged
ProcessFileStoreDown ==
    /\ pc = "files"
    /\ filesLeft > 0
    /\ store = "down"
    /\ filesLeft' = filesLeft - 1
    /\ UNCHANGED <<nodes, edges, pc, refIn, refOut, errorLogged, store,
                   dirExists, listing, arg, result, conn, calls>>

\* the first n queries of create_relationships
RECURSIVE RelQueriesBefore(_, _, _)
RelQueriesBefore(ns, es, n) ==
    IF n = 0 THEN [edges |-> es, ok |-> TRUE]
    ELSE LET r == RelQueriesBefore(ns, es, n - 1)
         IN IF r.ok THEN RunRelQuery(ns, r.edges, RelQueries[n]) ELSE r

\* create_relationships when one of its queries finds the store down: the
\* queries before it are committed and the exception leaves
\* process_directory
RelationshipsStoreFails ==
    /\ pc = "files"
    /\ filesLeft = 0
    /\ \E n \in 0..(Len(RelQueries) - 1) :
          LET r == RelQueriesBefore(nodes, edges, n)
          IN /\ r.ok
             /\ store = "down" => n = 0
             /\ edges' = r.edges
    /\ store' = "down"
    /\ pc' = "failed"
    /\ UNCHANGED <<nodes, filesLeft, refIn, refOut, errorLogged, dirExists,
                   listing, arg, result, conn, calls>>

\* create_temporal_relationships when its first, second or third query
\* finds the store down
TemporalStoreFails ==
    /\ pc = "temporal"
    /\ store = "up"
    /\ \/ edges' = edges
       \/ \E first \in HeadChoices(nodes, edges, "ASC") :
             LET r1 == MergeHeads(nodes, edges, "FIRSTCONDITION", first)
             IN /\ r1.ok
                /\ \/ edges' = r1.edges
                   \/ \E latest \in HeadChoices(nodes, edges, "DESC") :
                         LET r2 == MergeHeads(nodes, r1.edges,
                                              "LATESTCONDITION", latest)
                         IN r2.ok /\ edges' = r2.edges
    /\ store' = "down"
    /\ pc' = "failed"
    /\ UNCHANGED <<nodes, filesLeft, refIn, refOut, errorLogged, dirExists,
                   listing, arg, result, conn, calls>>

NextFail ==
    \/ ProcessFile
    \/ SkipFile
    \/ ProcessFileStoreFails
    \/ ProcessFileStoreDown
    \/ Relationships
    \/ RelationshipsStoreFails
    \/ Temporal
    \/ TemporalStoreFails

SpecFail == InitFail /\ [][NextFail]_vars

(***************************************************************************)
(* process_directory on a directory whose files are fixed before the run   *)
(*                                                                         *)
(* A file is its name and what json.load returns for it; names are the     *)
(* ranks 1..n of the file names in lexicographic order.  Path.glob returns *)
(* the files in the order the file system lists them, and                  *)
(* process_directory does not sort them.                                   *)
(***************************************************************************)
OrderBundles ==
    {<<Resource("Patient", <<"a">>, NULL, NULL, NULL, NULL)>>,
     <<Resource("Condition", <<"c", "1">>, Onset2020, Ref(<<"a">>), NULL,
                NULL)>>,
     <<Resource("Condition", <<"c", "1">>, Onset2021, Ref(<<"a">>), NULL,
                NULL)>>,
     <<Resource("Condition", <<"c", "2">>, Onset2019, Ref(<<"a">>), NULL,
                NULL)>>,
     <<Resource("Patient", <<"a">>, NULL, NULL, NULL, NULL),
       Resource("Condition", <<"c", "1">>, Onset2020, Ref(<<"a">>), NULL,
                NULL)>>}

\* the directories of n files
Directories(n) ==
    {[i \in 1..n |-> [name |-> i, data |-> ParsedFile("Bundle", c[i])]] :
        c \in [1..n -> OrderBundles]}

\* the orders glob may return the files of directory d in
Listings(d) ==
    {[i \in 1..Len(d) |-> d[perm[i]]] :
        perm \in {f \in [1..Len(d) -> 1..Len(d)] :
                     \A i, j \in 1..Len(d) : i # j => f[i] # f[j]}}

\* the files of a listing in lexicographic order of their names
SortedListing(l) ==
    [i \in 1..Len(l) |-> CHOOSE f \in {l[j] : j \in 1..Len(l)} : f.name = i]

\* the loop of process_directory over the files of l from the k-th on
RECURSIVE RunFiles(_, _, _)
RunFiles(ns, l, k) ==
    IF k > Len(l) THEN ns
    ELSE RunFiles(process_fhir_bundle(ns, l[k].data).nodes, l, k + 1)

InitOrder ==
    /\ nodes = EmptyGraphBag
    /\ edges = EmptyGraphBag
    /\ pc = "files"
    /\ \E n \in 0..MaxFiles : \E d \in Directories(n) :
          /\ listing \in Listings(d)
          /\ filesLeft = n
    /\ refIn = NULL
    /\ refOut = NULL
    /\ errorLogged = FALSE
    /\ store = "up"
    /\ dirExists = TRUE
    /\ arg = <<>>
    /\ result = <<>>
    /\ conn = "open"
    /\ calls = <<>>

\* one iteration of the loop, on the next file of the listing
ProcessListedFile ==
    /\ pc = "files"
    /\ filesLeft > 0
    /\ store = "up"
    /\ LET r == process_fhir_bundle(
                    nodes, listing[Len(listing) - filesLeft + 1].data)
       IN /\ nodes' = r.nodes
          /\ errorLogged' = (errorLogged \/ ~ r.ok)
    /\ filesLeft' = filesLeft - 1
    /\ UNCHANGED <<edges, pc, refIn, refOut, store, dirExists, listing, arg, result, conn, calls>>

NextOrder == ProcessListedFile \/ Relationships \/ Temporal

SpecOrder == InitOrder /\ [][NextOrder]_vars

(***************************************************************************)
(* The v2 injector: inject_from_directory_v2                               *)
(*                                                                         *)
(* Nodes are written with CREATE under the uniqueness constraints of       *)
(* create_constraints; references are resolved by extract_reference_id     *)
(* when the node is written and compared with `=`; relationships are       *)
(* written with CREATE and carry no property.  The node record keeps the   *)
(* field names of the builder: patient_ref holds pid, encounter_ref holds  *)
(* encref / encid, reason_ref holds reasonid, onsetDateTime holds          *)
(* onsetdate.                                                              *)
(***************************************************************************)
\* resource.get(key, ""): an absent value reads as the empty string
GetOrEmpty(x) == IF x = NULL THEN <<>> ELSE x

\* the parameters of the CREATE query of the resource's create_*_nodes
v2_node_data(r) ==
    LET t == r.resourceType
    IN Node(t, GetOrEmpty(r.id),
            IF t = "Condition" THEN GetOrEmpty(r.onsetDateTime) ELSE NULL,
            IF t \in {"Patient", "Practitioner", "Organization"} THEN NULL
            ELSE extract_reference_id(r.subject),
            IF t \in {"Patient", "Practitioner", "Organization", "Encounter"}
            THEN NULL ELSE extract_reference_id(r.encounter),
            IF t = "MedicationRequest"
            THEN extract_reference_id(r.reasonReference) ELSE NULL)

\* the eight create_*_nodes of one bundle: CREATE of a key that exists
\* violates the constraint, which the try around each resource logs
RECURSIVE V2CreateAll(_, _)
V2CreateAll(ns, rs) ==
    IF rs = <<>> THEN [nodes |-> ns, ok |-> TRUE]
    ELSE LET n == v2_node_data(Head(rs))
         IN IF \E m \in DOMAIN ns : Key(m) = Key(n)
            THEN [nodes |-> V2CreateAll(ns, Tail(rs)).nodes, ok |-> FALSE]
            ELSE V2CreateAll(BagAdd(ns, n), Tail(rs))

\* the seven queries of create_basic_relationships:
\* MATCH (s:src), (d:dst) WHERE holder.field = other.id CREATE (s)-[:type]->(d)
V2RelQueries ==
    << [type |-> "HASENCOUNTER", src |-> "Patient", dst |-> "Encounter",
        holder |-> "dst", field |-> "patient_ref"],
       [type |-> "HASCONDITION", src |-> "Patient", dst |-> "Condition",
        holder |-> "dst", field |-> "patient_ref"],
       [type |-> "HASOBSERVATION", src |-> "Encounter", dst |-> "Observation",
        holder |-> "dst", field |-> "encounter_ref"],
       [type |-> "HASCONDITION", src |-> "Encounter", dst |-> "Condition",
        holder |-> "dst", field |-> "encounter_ref"],
       [type |-> "TREATMENTFOR", src |-> "MedicationRequest",
        dst |-> "Condition", holder |-> "src", field |-> "reason_ref"],
       [type |-> "HASMEDICATION", src |-> "Patient",
        dst |-> "MedicationRequest",
        holder |-> "dst", field |-> "patient_ref"],
       [type |-> "HASPROCEDURE", src |-> "Patient", dst |-> "Procedure",
        holder |-> "dst", field |-> "patient_ref"] >>

RECURSIVE CreateEdges(_, _)
CreateEdges(es, new) ==
    IF new = {} THEN es
    ELSE LET e == CHOOSE x \in new : TRUE
         IN CreateEdges(BagAdd(es, e), new \ {e})

\* one query: a relationship for every matching pair of the whole graph
V2RunRelQuery(ns, es, q) ==
    LET rows == {row \in NodesOf(ns, q.src) \X NodesOf(ns, q.dst) :
                    IF q.holder = "dst" THEN row[2][q.field] = row[1].id
                                        ELSE row[1][q.field] = row[2].id}
    IN CreateEdges(es, {Edge(q.type, row[1], row[2], NULL) : row \in rows})

RECURSIVE create_basic_relationships(_, _, _)
create_basic_relationships(ns, es, k) ==
    IF k > Len(V2RelQueries) THEN es
    ELSE create_basic_relationships(
             ns, V2RunRelQuery(ns, es, V2RelQueries[k]), k + 1)

\* the rows of MATCH (p:Patient)-[:HASCONDITION]->(c) WHERE c.onsetdate IS
\* NOT NULL AND c.onsetdate <> "" for patient p: one per relationship
V2DatedEdges(ns, es, p) ==
    {e \in EdgesOf(es, "HASCONDITION") :
        /\ e.src = p
        /\ CondOf(ns, e).onsetDateTime \notin {NULL, <<>>}}

V2Patients(ns, es) ==
    {p \in {Key(n) : n \in NodesOf(ns, "Patient")} :
        V2DatedEdges(ns, es, p) # {}}

\* COLLECT(c) after ORDER BY: every condition as often as relationships
\* lead to it, in an order ORDER BY allows
V2SortedRows(ns, es, p, direction) ==
    LET D == V2DatedEdges(ns, es, p)
        n == BagSize(es, D)
    IN {s \in [1..n -> D] :
          /\ \A e \in D : Cardinality({i \in 1..n : s[i] = e}) = es[e]
          /\ \A i \in 1..(n - 1) :
                Before(direction, CondOf(ns, s[i]).onsetDateTime,
                       CondOf(ns, s[i + 1]).onsetDateTime)}

V2Orders(ns, es, direction) ==
    LET P == V2Patients(ns, es)
    IN {ord \in [P -> UNION {V2SortedRows(ns, es, p, direction) : p \in P}] :
          \A p \in P : ord[p] \in V2SortedRows(ns, es, p, direction)}

\* CREATE (p)-[:type]->(COLLECT(c)[0]) for every patient
V2CreateHeads(es, type, ord) ==
    CreateEdges(es, {[type |-> type, src |-> p, dst |-> ord[p][1].dst,
                      date |-> NULL] : p \in DOMAIN ord})

\* CREATE (conditions[i])-[:NEXTCONDITION]->(conditions[i+1]); the pairs
\* are a bag, one relationship for each
RECURSIVE V2CreateChain(_, _, _)
V2CreateChain(es, row, i) ==
    IF i >= Len(row) THEN es
    ELSE V2CreateChain(
             BagAdd(es, [type |-> "NEXTCONDITION", src |-> row[i].dst,
                         dst |-> row[i + 1].dst, date |-> NULL]),
             row, i + 1)

RECURSIVE V2CreateChains(_, _, _)
V2CreateChains(es, ord, P) ==
    IF P = {} THEN es
    ELSE LET p == CHOOSE x \in P : TRUE
         IN V2CreateChains(V2CreateChain(es, ord[p], 1), ord, P \ {p})

\* the v2 create_temporal_relationships: the outcomes its three queries
\* can have, all reading the HASCONDITION relationships es holds
v2_create_temporal_relationships(ns, es) ==
    {V2CreateChains(
         V2CreateHeads(V2CreateHeads(es, "FIRSTCONDITION", first),
                       "LATESTCONDITION", latest),
         ord, DOMAIN ord) :
        first \in V2Orders(ns, es, "ASC"),
        latest \in V2Orders(ns, es, "DESC"),
        ord \in V2Orders(ns, es, "ASC")}

\* inject_fhir_bundle_v2 on a parsed bundle: the nodes, then both
\* relationship builders
inject_fhir_bundle_v2(ns, es, bundle) ==
    LET r == V2CreateAll(ns, PassOrder(bundle, 1))
    IN {[nodes |-> r.nodes, edges |-> es2, ok |-> r.ok] :
          es2 \in v2_create_temporal_relationships(
                     r.nodes, create_basic_relationships(r.nodes, es, 1))}

V2Resources ==
    {Resource("Patient", <<"a">>, NULL, NULL, NULL, NULL),
     Resource("Encounter", <<"x">>, NULL, Ref(<<"a">>), NULL, NULL),
     Resource("Condition", <<"c", "1">>, Onset2020, Ref(<<"a">>),
              Ref(<<"x">>), NULL),
     Resource("Condition", <<"c", "2">>, Onset2019, Ref(<<"a">>), NULL, NULL),
     Resource("Condition", <<"c", "1">>, NULL, Ref(<<"a">>), NULL, NULL),
     Resource("MedicationRequest", <<"m">>, NULL, Ref(<<"a">>), NULL,
              Ref(<<"c", "1">>))}

V2Bundles == BundlesOver(V2Resources)

\* one iteration of the loop of inject_from_directory_v2 on a file that
\* parses: inject_from_file_v2, which raises for a wrong marker; the loop
\* logs what it raises and goes on
InjectFileV2 ==
    /\ pc = "files"
    /\ filesLeft > 0
    /\ \E marker \in Markers, bundle \in V2Bundles :
          IF marker # "Bundle"
          THEN /\ errorLogged' = TRUE
               /\ UNCHANGED <<nodes, edges>>
          ELSE \E r \in inject_fhir_bundle_v2(nodes, edges, bundle) :
                  /\ nodes' = r.nodes
                  /\ edges' = r.edges
                  /\ errorLogged' = (errorLogged \/ ~ r.ok)
    /\ filesLeft' = filesLeft - 1
    /\ UNCHANGED <<pc, refIn, refOut, store, dirExists, listing, arg, result, conn, calls>>

\* one iteration on a file json.load rejects
SkipFileV2 ==
    /\ pc = "files"
    /\ filesLeft > 0
    /\ filesLeft' = filesLeft - 1
    /\ errorLogged' = TRUE
    /\ UNCHANGED <<nodes, edges, pc, refIn, refOut, store, dirExists, listing, arg, result, conn, calls>>

\* the loop is over, or there was no file: inject_from_directory_v2 returns
ReturnV2 ==
    /\ pc = "files"
    /\ filesLeft = 0
    /\ pc' = "done"
    /\ UNCHANGED <<nodes, edges, filesLeft, refIn, refOut, errorLogged, store,
                   dirExists, listing, arg, result, conn, calls>>

NextV2 == InjectFileV2 \/ SkipFileV2 \/ ReturnV2

SpecV2 == Init /\ [][NextV2]_vars

(***************************************************************************)
(* Calls of extract_reference_id                                           *)
(***************************************************************************)
InitRef ==
    /\ nodes = EmptyGraphBag
    /\ edges = EmptyGraphBag
    /\ pc = "ref"
    /\ filesLeft = 0
    /\ refIn \in References
    /\ refOut = NULL
    /\ errorLogged = FALSE
    /\ store = "up"
    /\ dirExists = TRUE
    /\ listing = <<>>
    /\ arg = <<>>
    /\ result = <<>>
    /\ conn = "open"
    /\ calls = <<>>

ExtractReference ==
    /\ pc = "ref"
    /\ refOut = NULL
    /\ refOut' = extract_reference_id(refIn)
    /\ UNCHANGED <<nodes, edges, pc, filesLeft, refIn, errorLogged, store,
                   dirExists, listing, arg, result, conn, calls>>

NextRef == ExtractReference

SpecRef == InitRef /\ [][NextRef]_vars

(***************************************************************************)
(* Properties                                                              *)
(***************************************************************************)
Patients == NodesOf(nodes, "Patient")

Conditions == NodesOf(nodes, "Condition")

Medications == NodesOf(nodes, "MedicationRequest")

\* a condition with a non-empty onset timestamp
Dated(c) == c.onsetDateTime # NULL /\ c.onsetDateTime # <<>>

\* the conditions patient p is linked to by HASCONDITION
LinkedConditions(p) ==
    {c \in Conditions :
        \E e \in EdgesOf(edges, "HASCONDITION") :
            e.src = Key(p) /\ e.dst = Key(c)}

DatedConditions(p) == {c \in LinkedConditions(p) : Dated(c)}

\* the relationships of a type that leave node n
OutEdges(n, type) == {e \in EdgesOf(edges, type) : e.src = Key(n)}

OutCount(n, type) == BagSize(edges, OutEdges(n, type))

\* the NEXTCONDITION relationships with both ends in the set D of conditions
ChainEdges(D) ==
    {e \in EdgesOf(edges, "NEXTCONDITION") :
        e.src \in {Key(c) : c \in D} /\ e.dst \in {Key(c) : c \in D}}

\* the reference names the id: its resolved bare id is the id
Identifies(ref, id) == ref # NULL /\ extract_reference_id(ref) = id

\* C1: wherever the loop over the files stands, processing a bundle a second
\* time leaves the node count of each of the eight labels as the first
\* processing left it; and no two nodes of a label ever share an id
C1_IdempotentUpsert ==
    /\ pc = "files" =>
          \A bundle \in Bundles :
              LET once == ProcessFhirBundle(nodes, bundle)
                  twice == ProcessFhirBundle(once, bundle)
              IN get_summary(twice) = get_summary(once)
    /\ \A n \in DOMAIN nodes :
          /\ nodes[n] = 1
          /\ \A m \in DOMAIN nodes : Key(m) = Key(n) => m = n

\* a bundle of two resources has been processed, and processing it again
\* changes no node
C1_Witness ==
    /\ pc = "files"
    /\ \E bundle \in Bundles :
          /\ Len(bundle) = 2
          /\ bundle[1] # bundle[2]
          /\ \A i \in 1..2 : NodeData(bundle[i]) \in DOMAIN nodes
          /\ ProcessFhirBundle(nodes, bundle) = nodes
    /\ Cardinality(DOMAIN nodes) >= 4

\* C2: create_relationships run a second time over the same nodes leaves
\* the count of every structural relationship type as the first run left it
C2_IdempotentEdges ==
    LET once == CreateRelationships(nodes, edges).edges
        twice == CreateRelationships(nodes, once).edges
    IN \A type \in StructuralTypes :
          EdgeCount(twice, type) = EdgeCount(once, type)

\* create_relationships has run and created a relationship of every
\* structural type; a second run adds nothing
C2_Witness ==
    /\ pc = "temporal"
    /\ \A type \in StructuralTypes : EdgeCount(edges, type) >= 1
    /\ CreateRelationships(nodes, edges).edges = edges

\* C3: after process_directory, a patient with a dated condition has exactly
\* one FIRSTCONDITION and one LATESTCONDITION relationship, and a patient
\* without one has none
C3_OneFirstOneLatest ==
    pc = "done" =>
        \A p \in Patients :
            IF DatedConditions(p) # {}
            THEN /\ OutCount(p, "FIRSTCONDITION") = 1
                 /\ OutCount(p, "LATESTCONDITION") = 1
            ELSE /\ OutCount(p, "FIRSTCONDITION") = 0
                 /\ OutCount(p, "LATESTCONDITION") = 0

\* C4: after process_directory, the NEXTCONDITION relationships among the
\* N >= 1 dated conditions of a patient are N - 1 and form one chain through
\* all of them
C4_ChainOfAllDated ==
    pc = "done" =>
        \A p \in Patients :
            LET D == DatedConditions(p)
                N == Cardinality(D)
            IN N >= 1 =>
                 /\ BagSize(edges, ChainEdges(D)) = N - 1
                 /\ \E s \in [1..N -> D] :
                       /\ \A i, j \in 1..N : i # j => s[i] # s[j]
                       /\ {<<e.src, e.dst>> : e \in ChainEdges(D)}
                            = {<<Key(s[i]), Key(s[i + 1])>> : i \in 1..(N - 1)}

\* C5: every NEXTCONDITION relationship runs from a condition to one whose
\* onset is not earlier
C5_ChainNonDecreasing ==
    \A e \in EdgesOf(edges, "NEXTCONDITION") :
        \A a, b \in Conditions :
            (Key(a) = e.src /\ Key(b) = e.dst) =>
                /\ a.onsetDateTime # NULL
                /\ b.onsetDateTime # NULL
                /\ StrLeq(a.onsetDateTime, b.onsetDateTime)

\* a chain of three conditions with three different onsets has been built
C5_Witness ==
    /\ pc = "done"
    /\ \E e, f \in EdgesOf(edges, "NEXTCONDITION") :
          /\ e.dst = f.src
          /\ e.src # f.dst
          /\ \E a, b, c \in Conditions :
                /\ Key(a) = e.src /\ Key(b) = e.dst /\ Key(c) = f.dst
                /\ a.onsetDateTime # b.onsetDateTime
                /\ b.onsetDateTime # c.onsetDateTime

\* C6: for a patient whose dated conditions have pairwise distinct onsets,
\* FIRSTCONDITION points to the dated condition of least onset,
\* LATESTCONDITION to the one of greatest onset, and every NEXTCONDITION
\* relationship from one of them goes to the one of next larger onset
C6_FirstLatestNext ==
    pc = "done" =>
        \A p \in Patients :
            LET D == DatedConditions(p)
                Least == {c \in D : \A d \in D :
                            StrLeq(c.onsetDateTime, d.onsetDateTime)}
                Greatest == {c \in D : \A d \in D :
                            StrLeq(d.onsetDateTime, c.onsetDateTime)}
                Successor(c, d) ==
                    /\ c.onsetDateTime # d.onsetDateTime
                    /\ StrLeq(c.onsetDateTime, d.onsetDateTime)
                    /\ \A x \in D \ {c, d} :
                          ~ (StrLeq(c.onsetDateTime, x.onsetDateTime)
                             /\ StrLeq(x.onsetDateTime, d.onsetDateTime))
            IN (/\ D # {}
                /\ \A c, d \in D :
                      c # d => c.onsetDateTime # d.onsetDateTime) =>
                 /\ {e.dst : e \in OutEdges(p, "FIRSTCONDITION")}
                        = {Key(c) : c \in Least}
                 /\ {e.dst : e \in OutEdges(p, "LATESTCONDITION")}
                        = {Key(c) : c \in Greatest}
                 /\ \A c \in D : \A e \in OutEdges(c, "NEXTCONDITION") :
                       \E d \in D : Key(d) = e.dst /\ Successor(c, d)

\* C7: a condition without an onset timestamp (absent or empty) is the
\* target of no FIRSTCONDITION or LATESTCONDITION relationship and an end
\* of no NEXTCONDITION relationship
C7_UndatedExcluded ==
    \A c \in Conditions :
        ~ Dated(c) =>
            \A e \in DOMAIN edges :
                /\ e.type \in {"FIRSTCONDITION", "LATESTCONDITION"}
                      => e.dst # Key(c)
                /\ e.type = "NEXTCONDITION"
                      => e.src # Key(c) /\ e.dst # Key(c)

\* bare ids: what extract_reference_id is to return
BareIds == {<<"a", "1">>, <<"b">>, <<"a", "1", "b">>, <<"b", "a", "1">>}

ResourceTypeNames == {<<"C", "o", "n", "d">>}

\* C8: extract_reference_id maps "Type/id" and "urn:uuid:id" to id, a bare
\* id to itself and the empty string to the empty string
C8_ReferenceResolution ==
    refOut # NULL =>
        /\ \A id \in BareIds :
              /\ \A type \in ResourceTypeNames :
                    refIn = type \o <<"/">> \o id => refOut = id
              /\ refIn = URN \o id => refOut = id
              /\ refIn = id => refOut = id
        /\ refIn = <<>> => refOut = <<>>

\* the type-qualified reference "Cond/a1" has been resolved
C8_Witness ==
    /\ refIn = <<"C", "o", "n", "d", "/", "a", "1">>
    /\ refOut = <<"a", "1">>

\* C9: a condition whose patient reference names no loaded patient (or that
\* has none) has no HASCONDITION relationship, and every relationship joins
\* two nodes of the graph
C9_DanglingReference ==
    /\ \A c \in Conditions :
          (\A p \in Patients : ~ Identifies(c.patient_ref, p.id)) =>
              \A e \in EdgesOf(edges, "HASCONDITION") : e.dst # Key(c)
    /\ \A e \in DOMAIN edges :
          {e.src, e.dst} \subseteq {Key(n) : n \in DOMAIN nodes}

\* C10: once create_relationships has run, a medication request whose reason
\* reference names a condition of the graph has exactly one TREATMENTFOR
\* relationship, to that condition, and one without reason reference has
\* none
C10_TreatmentEdge ==
    pc \in {"temporal", "done"} =>
        \A m \in Medications :
            /\ m.reason_ref = NULL => OutCount(m, "TREATMENTFOR") = 0
            /\ \A c \in Conditions :
                  Identifies(m.reason_ref, c.id) =>
                      /\ OutCount(m, "TREATMENTFOR") = 1
                      /\ \A e \in OutEdges(m, "TREATMENTFOR") : e.dst = Key(c)

TemporalTypes == {"FIRSTCONDITION", "LATESTCONDITION", "NEXTCONDITION"}

\* the relationships of es whose type is in T, with their multiplicities
EdgesIn(es, T) == [e \in {x \in DOMAIN es : x.type \in T} |-> es[e]]

\* C11: in process_directory every node upsert happens while the loop over
\* the files runs and before any relationship query; structural
\* relationships are written only after the last file, by a step that
\* leaves the loop for good and touches no node and no temporal
\* relationship; temporal relationships are written only after
\* create_relationships has returned, by a step that touches no node and
\* no structural relationship.
C11_TwoPhaseBarrier ==
    [][/\ nodes' # nodes =>
            /\ pc = "files" /\ pc' = "files"
            /\ edges = EmptyGraphBag /\ edges' = edges
       /\ pc # "files" => pc' # "files" /\ nodes' = nodes
       /\ EdgesIn(edges', StructuralTypes) # EdgesIn(edges, StructuralTypes) =>
            /\ pc = "files" /\ filesLeft = 0 /\ pc' # "files"
            /\ EdgesIn(edges', TemporalTypes) = EdgesIn(edges, TemporalTypes)
       /\ EdgesIn(edges', TemporalTypes) # EdgesIn(edges, TemporalTypes) =>
            /\ pc = "temporal"
            /\ EdgesIn(edges', StructuralTypes)
                  = EdgesIn(edges, StructuralTypes)]_vars

\* a batch of at least two files has ended with structural and temporal
\* relationships written
C11_Witness ==
    /\ pc = "done"
    /\ EdgesIn(edges, StructuralTypes) # EmptyGraphBag
    /\ EdgesIn(edges, TemporalTypes) # EmptyGraphBag
    /\ \E n, m \in DOMAIN nodes : n.label = "Patient" /\ m.label = "Encounter"

\* the node a relationship end names
NodeAt(ns, key) == CHOOSE n \in DOMAIN ns : Key(n) = key

\* C12: every structural relationship joins a source and a target such
\* that the reference stored on the end that holds it, resolved to a bare
\* id, equals the id of the other end; a node whose id is only a substring
\* of the referenced id gets no relationship.
C12_ExactMatch ==
    \A e \in DOMAIN EdgesIn(edges, StructuralTypes) :
        \E i \in 1..Len(RelQueries) :
            LET q == RelQueries[i]
                a == NodeAt(nodes, e.src)
                b == NodeAt(nodes, e.dst)
            IN /\ q.type = e.type /\ q.src = a.label /\ q.dst = b.label
               /\ IF q.holder = "dst" THEN Identifies(b[q.field], a.id)
                                      ELSE Identifies(a[q.field], b.id)

\* no two structural relationships of one type join the same ordered pair
AtMostOnePerPair(es) ==
    \A e, f \in DOMAIN EdgesIn(es, StructuralTypes) :
        (e.type = f.type /\ e.src = f.src /\ e.dst = f.dst) =>
            e = f /\ es[e] = 1

\* C13: every ordered pair of nodes is joined by at most one relationship
\* of each structural type, after a batch and also after a later file
\* upserts a node again, possibly with other attributes, and
\* create_relationships runs again.
C13_OneEdgePerPair ==
    pc = "done" =>
        /\ AtMostOnePerPair(edges)
        /\ \A r \in ChainResources :
              AtMostOnePerPair(
                  CreateRelationships(ProcessFhirBundle(nodes, <<r>>),
                                      edges).edges)

\* C14: in the v2 injector both relationship builders run once for the
\* batch, after every bundle's nodes exist: when inject_from_directory_v2
\* has returned, no (source, target, type) carries more than one
\* relationship.
C14_OncePerBatch ==
    pc = "done" => \A e \in DOMAIN edges : edges[e] = 1

\* C15: a file that fails in process_fhir_bundle does not abort the batch:
\* once an error has been logged for a file the loop still reads every
\* remaining file, and the batch goes on through create_relationships and
\* create_temporal_relationships without an exception leaving
\* process_directory.
C15_FileIsolation ==
    errorLogged =>
        /\ pc \in {"files", "temporal", "done"}
        /\ pc \in {"temporal", "done"} => filesLeft = 0

\* an id that is absent or empty
NoId(id) == id \in {NULL, <<>>}

\* C16: whatever the graph holds when process_fhir_bundle reads a bundle,
\* every resource of the bundle that has an id is upserted, also when
\* another resource of the bundle has none, and no node without an id
\* comes to exist.
C16_RecordIsolation ==
    (pc = "files" /\ filesLeft > 0) =>
        \A bundle \in Bundles :
            LET after == ProcessFhirBundle(nodes, bundle)
            IN /\ \A k \in 1..Len(bundle) :
                     ~ NoId(bundle[k].id) =>
                        \E n \in DOMAIN after :
                            /\ n.label = bundle[k].resourceType
                            /\ n.id = bundle[k].id
               /\ \A n \in DOMAIN after : ~ NoId(n.id)

\* C17: a file whose top-level resourceType is not "Bundle" creates no
\* node, whatever its entry list holds and whatever the graph holds when
\* process_fhir_bundle reads it.
C17_BundleMarker ==
    (pc = "files" /\ filesLeft > 0) =>
        \A marker \in Markers \ {"Bundle"}, bundle \in Bundles :
            process_fhir_bundle(nodes, ParsedFile(marker, bundle)).nodes
                = nodes

\* C18: once a node upsert or a relationship query of process_directory
\* has failed because the store does not answer, the exception has left
\* process_directory: the batch does not go on as after a failed file.
C18_StoreUnavailable == store = "down" => pc = "failed"

\* C19: when the directory does not exist process_directory does nothing
\* beyond failing at its start: no query reaches the store, no
\* relationship builder runs; and with the store answering, a missing
\* directory is the only reason for an exception to leave
\* process_directory.
C19_MissingDirectory ==
    /\ ~ dirExists =>
          /\ pc \in {"files", "failed"}
          /\ store = "up"
          /\ edges = EmptyGraphBag
    /\ (pc = "failed" /\ store = "up") => ~ dirExists

\* C20: whatever order the directory listing comes in, the batch leaves
\* the nodes, with their attributes, and the structural relationships
\* that reading the files in lexicographic order of their names leaves:
\* two runs over the same directory contents end with the same graph.
C20_DeterministicOrder ==
    pc = "done" =>
        LET ns == RunFiles(EmptyGraphBag, SortedListing(listing), 1)
        IN /\ nodes = ns
           /\ EdgesIn(edges, StructuralTypes)
                = CreateRelationships(ns, EmptyGraphBag).edges

(***************************************************************************)
(* The retrieval API                                                       *)
(*                                                                         *)
(* Neo4jService reads the graph the builder wrote.  Each of its methods    *)
(* sends its queries with session.run and catches nothing, so a query the  *)
(* store does not answer raises out of the method.  A service call yields  *)
(* [raised, value]; an endpoint yields the status and the body of its      *)
(* response.  `fails` is the number of the query of this call at which the *)
(* store stops answering, 0 when it keeps answering.                       *)
(***************************************************************************)
\* Python's None
None == [kind |-> "None"]

QueryRaises(st, fails, k) == st = "down" \/ fails = k

\* the dict a service method builds from the single record of its query
PatientDict(n) == [kind |-> "dict", id |-> n.id]

\* the variant of the service method that answers an unknown key with an
\* empty record rather than None
db_get_patient_by_mrn_empty(ns, st, fails, mrn) ==
    IF QueryRaises(st, fails, 1) THEN [raised |-> TRUE, value |-> None]
    ELSE [raised |-> FALSE, value |-> [kind |-> "dict", id |-> NULL]]

\* Neo4jService.get_patient_by_mrn: MATCH (p:Patient {id: $mrn}) RETURN
\* ..., result.single(), dict(record) or None
db_get_patient_by_mrn(ns, st, fails, mrn) ==
    IF QueryRaises(st, fails, 1) THEN [raised |-> TRUE, value |-> None]
    ELSE LET rows == {n \in NodesOf(ns, "Patient") : n.id = mrn}
         IN IF rows = {} THEN [raised |-> FALSE, value |-> None]
            ELSE [raised |-> FALSE,
                  value |-> PatientDict(CHOOSE n \in rows : TRUE)]

\* the rows of MATCH (p:Patient {id: $mrn})-[:HASENCOUNTER]->(e:Encounter)
EncounterRows(es, mrn) ==
    {e \in EdgesOf(es, "HASENCOUNTER") :
        e.src = [label |-> "Patient", id |-> mrn] /\ e.dst.label = "Encounter"}

\* Neo4jService.get_patient_encounters: the patient query, None when it
\* has no record, then the encounters query
db_get_patient_encounters(ns, es, st, fails, mrn) ==
    IF QueryRaises(st, fails, 1) THEN [raised |-> TRUE, value |-> None]
    ELSE IF {n \in NodesOf(ns, "Patient") : n.id = mrn} = {}
         THEN [raised |-> FALSE, value |-> None]
         ELSE IF QueryRaises(st, fails, 2)
              THEN [raised |-> TRUE, value |-> None]
              ELSE [raised |-> FALSE,
                    value |-> [kind |-> "dict", patient_id |-> mrn,
                               total_encounters |->
                                   BagSize(es, EncounterRows(es, mrn)),
                               encounters |->
                                   {e.dst.id : e \in EncounterRows(es, mrn)}]]

\* the try block shared by the two endpoints: None becomes
\* HTTPException(404), which `except HTTPException: raise` lets through;
\* any other exception becomes HTTPException(500)
Respond(r) ==
    IF r.raised THEN [status |-> 500, body |-> None]
    ELSE IF r.value = None THEN [status |-> 404, body |-> None]
         ELSE [status |-> 200, body |-> r.value]

\* GET /patients/{mrn}
get_patient_details(ns, st, fails, mrn) ==
    Respond(db_get_patient_by_mrn(ns, st, fails, mrn))

\* GET /patients/{mrn}/encounters
get_patient_encounters(ns, es, st, fails, mrn) ==
    Respond(db_get_patient_encounters(ns, es, st, fails, mrn))

\* the graphs the API is asked about: two patients, the id of one a prefix
\* of the other's, and their encounters
ApiResources ==
    {Resource("Patient", id, NULL, NULL, NULL, NULL) : id \in PatientIds}
    \cup {Resource("Encounter", <<"x">>, NULL, Ref(<<"a">>), NULL, NULL),
          Resource("Encounter", <<"y">>, NULL, Ref(<<"a", "b">>), NULL, NULL)}

\* the keys asked for: the patients', an encounter's, and one no node has
Mrns == PatientIds \cup {<<"x">>, <<"z">>}

InitApi ==
    /\ \E bundle \in BundlesOver(ApiResources) :
          /\ nodes = ProcessFhirBundle(EmptyGraphBag, bundle)
          /\ edges = CreateRelationships(nodes, EmptyGraphBag).edges
    /\ pc = "api"
    /\ filesLeft = 0
    /\ refIn = NULL
    /\ refOut = NULL
    /\ errorLogged = FALSE
    /\ store = "up"
    /\ dirExists = TRUE
    /\ listing = <<>>
    /\ arg = <<>>
    /\ result = <<>>
    /\ conn = "open"
    /\ calls = <<>>

\* a request to /patients/{mrn}
GetPatientDetails ==
    /\ pc = "api"
    /\ \E mrn \in Mrns, fails \in {0, 1} :
          /\ arg' = [endpoint |-> "details", mrn |-> mrn]
          /\ result' = get_patient_details(nodes, store, fails, mrn)
          /\ store' = IF db_get_patient_by_mrn(nodes, store, fails, mrn).raised
                      THEN "down" ELSE store
    /\ UNCHANGED <<nodes, edges, pc, filesLeft, refIn, refOut, errorLogged,
                   dirExists, listing, conn, calls>>

\* a request to /patients/{mrn}/encounters
GetPatientEncounters ==
    /\ pc = "api"
    /\ \E mrn \in Mrns, fails \in {0, 1, 2} :
          /\ arg' = [endpoint |-> "encounters", mrn |-> mrn]
          /\ result' = get_patient_encounters(nodes, edges, store, fails, mrn)
          /\ store' = IF db_get_patient_encounters(nodes, edges, store, fails,
                                                   mrn).raised
                      THEN "down" ELSE store
    /\ UNCHANGED <<nodes, edges, pc, filesLeft, refIn, refOut, errorLogged,
                   dirExists, listing, conn, calls>>

NextApi == GetPatientDetails \/ GetPatientEncounters

SpecApi == InitApi /\ [][NextApi]_vars


\* C21: a request for a patient key no Patient node has is answered 404 when
\* no query of the request failed, never 200 and never 500, whatever else
\* the graph holds under that key; a request during which the store stopped
\* answering, or made while it is down, is answered 500, never 404; 200
\* carries the record of the patient asked for.
C21_NotFoundAndStoreError ==
    (pc = "api" /\ result # <<>>) =>
        LET known == \E n \in NodesOf(nodes, "Patient") : n.id = arg.mrn
        IN /\ store = "down" => result.status = 500
           /\ (store = "up" /\ ~known) =>
                 result.status = 404 /\ result.body = None
           /\ (store = "up" /\ known) =>
                 /\ result.status = 200
                 /\ result.body.kind = "dict"
                 /\ arg.endpoint = "details" => result.body.id = arg.mrn
                 /\ arg.endpoint = "encounters" =>
                       result.body.patient_id = arg.mrn

C21_Witness ==
    /\ pc = "api"
    /\ result # <<>>
    /\ arg.mrn = <<"x">>
    /\ arg.endpoint = "details"
    /\ NodesOf(nodes, "Encounter") # {}
    /\ NodesOf(nodes, "Patient") # {}
    /\ store = "up"
    /\ result.status = 404

\* C22: the summary of a finished batch holds, next to the count of every
\* node label, the count of every relationship type the batch writes: the
\* structural types and the three temporal types.
C22_SummaryCountsEdges ==
    (pc = "done" /\ edges # EmptyGraphBag) =>
        LET summary == get_summary(nodes)
        IN /\ \A k \in 1..Len(NodeTypes) :
                 /\ NodeTypes[k] \in DOMAIN summary
                 /\ summary[NodeTypes[k]] = NodeCount(nodes, NodeTypes[k])
           /\ \A t \in StructuralTypes \cup TemporalTypes :
                 /\ t \in DOMAIN summary
                 /\ summary[t] = EdgeCount(edges, t)

(***************************************************************************)
(* JSON values and _safe_get                                               *)
(*                                                                         *)
(* What json.load returns: a dict (a function from key names to values),   *)
(* a list (a sequence of values), a string, a number or None, each tagged  *)
(* with its Python type.  A key of a key path is a name or an index.       *)
(***************************************************************************)
EmptyDict == [t |-> "dict", v |-> [x \in {} |-> x]]

JDict(f) == [t |-> "dict", v |-> f]

JList(s) == [t |-> "list", v |-> s]

JStr(s) == [t |-> "str", v |-> s]

JNum(n) == [t |-> "num", v |-> n]

JNone == [t |-> "None", v |-> "None"]

Name(s) == [k |-> "name", s |-> s, i |-> 0]

Index(i) == [k |-> "index", s |-> "", i |-> i]

\* data == {}
IsEmptyDict(data) == data.t = "dict" /\ DOMAIN data.v = {}

\* data.get(key, {}) on a dict whose keys are names
DictGet(data, key) ==
    IF key.k = "name" /\ key.s \in DOMAIN data.v THEN data.v[key.s]
    ELSE EmptyDict

\* the loop of _safe_get from the k-th key on
RECURSIVE SafeGetFrom(_, _, _, _)
SafeGetFrom(data, keys, k, default) ==
    IF k > Len(keys) THEN (IF IsEmptyDict(data) THEN default ELSE data)
    ELSE IF data.t = "dict"
         THEN SafeGetFrom(DictGet(data, keys[k]), keys, k + 1, default)
         ELSE IF data.t = "list" /\ Len(data.v) > 0
              THEN SafeGetFrom(IF keys[k].k = "index" THEN data.v[1] ELSE data,
                               keys, k + 1, default)
              ELSE default

\* FHIRGraphBuilder._safe_get(data, *keys, default=default)
safe_get(data, keys, default) == SafeGetFrom(data, keys, 1, default)

\* resource.get(key): None when the key is absent
Get(data, key) == IF key \in DOMAIN data.v THEN data.v[key] ELSE JNone

(***************************************************************************)
(* The value of an Observation                                             *)
(*                                                                         *)
(* A resource carries its value under valueQuantity, valueString or        *)
(* valueCodeableConcept.  The builder passes four parameters to its SET    *)
(* clause; a parameter that is None leaves the node without that property. *)
(* The v2 injector fills one value and one unit.                           *)
(***************************************************************************)
\* lines 279-282 of create_observation_nodes: the value parameters of the
\* MERGE ... SET query
observation_values(resource) ==
    [value |-> safe_get(resource, <<Name("valueQuantity"), Name("value")>>,
                        JNone),
     unit |-> safe_get(resource, <<Name("valueQuantity"), Name("unit")>>,
                       JNone),
     valueString |-> Get(resource, "valueString"),
     valueCode |-> safe_get(resource,
                            <<Name("valueCodeableConcept"), Name("text")>>,
                            JNone)]

\* str(x) of a one-digit number or of a string
PyStr(x) ==
    IF x.t = "num"
    THEN JStr(<<"0", "1", "2", "3", "4", "5", "6", "7", "8", "9">>[x.v + 1])
    ELSE x

\* d.get(key, "")
GetOrBlank(d, key) == IF key \in DOMAIN d.v THEN d.v[key] ELSE JStr("")

\* the value extraction of the v2 create_observation_nodes
v2_observation_values(resource) ==
    IF "valueQuantity" \in DOMAIN resource.v
    THEN [value |-> PyStr(GetOrBlank(resource.v["valueQuantity"], "value")),
          unit |-> GetOrBlank(resource.v["valueQuantity"], "unit")]
    ELSE IF "valueString" \in DOMAIN resource.v
         THEN [value |-> resource.v["valueString"], unit |-> JStr("")]
         ELSE IF "valueCodeableConcept" \in DOMAIN resource.v
              THEN LET c == resource.v["valueCodeableConcept"]
                   IN IF "coding" \in DOMAIN c.v /\ Len(c.v["coding"].v) > 0
                      THEN [value |->
                                GetOrBlank(c.v["coding"].v[1], "display"),
                            unit |-> JStr("")]
                      ELSE [value |-> JStr(""), unit |-> JStr("")]
              ELSE [value |-> JStr(""), unit |-> JStr("")]

\* a dict's optional key: absent, or present with one of the values
OptField(name, values) == {[x \in {} |-> x]} \cup {name :> v : v \in values}

Quantities ==
    {JDict([value |-> JNum(7), unit |-> JStr("kg")]),
     JDict([value |-> JNum(7)]), JDict([unit |-> JStr("kg")]), EmptyDict}

Concepts ==
    {JDict([text |-> JStr("t"),
            coding |-> JList(<<JDict([display |-> JStr("d")])>>)]),
     JDict([coding |-> JList(<<JDict([display |-> JStr("d")])>>)]),
     JDict([text |-> JStr("t")]), EmptyDict}

\* Observation resources with every combination of the three value keys
ObservationResources ==
    {JDict(("resourceType" :> JStr("Observation")) @@ ("id" :> JStr("o"))
           @@ q @@ s @@ c) :
        q \in OptField("valueQuantity", Quantities),
        s \in OptField("valueString", {JStr("s"), JStr("")}),
        c \in OptField("valueCodeableConcept", Concepts)}

InitObs ==
    /\ nodes = EmptyGraphBag
    /\ edges = EmptyGraphBag
    /\ pc = "observation"
    /\ filesLeft = 0
    /\ refIn = NULL
    /\ refOut = NULL
    /\ errorLogged = FALSE
    /\ store = "up"
    /\ dirExists = TRUE
    /\ listing = <<>>
    /\ arg \in ObservationResources
    /\ result = <<>>
    /\ conn = "open"
    /\ calls = <<>>

\* the builder maps the resource
MapObservation ==
    /\ pc = "observation"
    /\ result = <<>>
    /\ result' = [mapper |-> "builder", stored |-> observation_values(arg)]
    /\ UNCHANGED <<nodes, edges, pc, filesLeft, refIn, refOut, errorLogged,
                   store, dirExists, listing, arg, conn, calls>>

\* the v2 injector maps the resource
MapObservationV2 ==
    /\ pc = "observation"
    /\ result = <<>>
    /\ result' = [mapper |-> "v2", stored |-> v2_observation_values(arg)]
    /\ UNCHANGED <<nodes, edges, pc, filesLeft, refIn, refOut, errorLogged,
                   store, dirExists, listing, arg, conn, calls>>

NextObs == MapObservation \/ MapObservationV2

SpecObs == InitObs /\ [][NextObs]_vars

\* the kinds of value the builder's parameters give the node
StoredKinds(s) ==
    {kind \in {"numeric", "text", "coded"} :
        \/ kind = "numeric" /\ (s.value # JNone \/ s.unit # JNone)
        \/ kind = "text" /\ s.valueString # JNone
        \/ kind = "coded" /\ s.valueCode # JNone}

\* C23: an Observation node stores at most one of the three kinds of value
\* (numeric quantity with unit, free text, coded), the first one present in
\* that order: when the resource has a numeric quantity, no text and no
\* coded value is stored, and when it has free text, no coded value is.
C23_OneTypedValue ==
    (pc = "observation" /\ result # <<>> /\ result.mapper = "builder") =>
        LET kinds == StoredKinds(result.stored)
        IN /\ Cardinality(kinds) <= 1
           /\ "valueQuantity" \in DOMAIN arg.v => kinds \subseteq {"numeric"}
           /\ ("valueQuantity" \notin DOMAIN arg.v
                 /\ "valueString" \in DOMAIN arg.v) => kinds \subseteq {"text"}

(***************************************************************************)
(* Calls of _safe_get                                                      *)
(***************************************************************************)
\* where a key path leads in a JSON value: a name selects the member of a
\* dict that has it, an index i the element of a list longer than i
RECURSIVE Resolve(_, _, _)
Resolve(data, keys, k) ==
    IF k > Len(keys) THEN [found |-> TRUE, value |-> data]
    ELSE IF keys[k].k = "name"
         THEN IF data.t = "dict" /\ keys[k].s \in DOMAIN data.v
              THEN Resolve(data.v[keys[k].s], keys, k + 1)
              ELSE [found |-> FALSE, value |-> JNone]
         ELSE IF data.t = "list" /\ Len(data.v) > keys[k].i
              THEN Resolve(data.v[keys[k].i + 1], keys, k + 1)
              ELSE [found |-> FALSE, value |-> JNone]

Codings == <<JDict([code |-> JStr("c")]), JDict([code |-> JStr("d")])>>

\* resources whose "code" is a record, a list, a string, null, an empty
\* list or absent, and whose "coding" is a list of one or two records or a
\* record
SafeGetData ==
    {JDict([code |-> JDict([text |-> JStr("x"),
                            coding |-> JList(SubSeq(Codings, 1, 1))])]),
     JDict([code |-> JDict([coding |-> JList(Codings)])]),
     JDict([code |-> JDict([coding |-> Codings[1]])]),
     JDict([code |-> JList(<<JDict([text |-> JStr("x")])>>)]),
     JDict([code |-> JStr("x")]),
     JDict([code |-> JNone]),
     JDict([code |-> JList(<<>>)]),
     EmptyDict}

KeyPaths ==
    {<<>>,
     <<Name("code")>>,
     <<Name("code"), Name("text")>>,
     <<Name("code"), Index(0), Name("text")>>,
     <<Name("code"), Name("coding"), Index(0), Name("code")>>,
     <<Name("code"), Name("coding"), Index(1), Name("code")>>,
     <<Name("code"), Name("coding"), Index(2), Name("code")>>}

Defaults == {JNone, JStr("default")}

InitSafeGet ==
    /\ nodes = EmptyGraphBag
    /\ edges = EmptyGraphBag
    /\ pc = "safe_get"
    /\ filesLeft = 0
    /\ refIn = NULL
    /\ refOut = NULL
    /\ errorLogged = FALSE
    /\ store = "up"
    /\ dirExists = TRUE
    /\ listing = <<>>
    /\ arg \in [data : SafeGetData, keys : KeyPaths, default : Defaults]
    /\ result = <<>>
    /\ conn = "open"
    /\ calls = <<>>

\* a call _safe_get(data, *keys, default=default)
SafeGet ==
    /\ pc = "safe_get"
    /\ result = <<>>
    /\ result' = [value |-> safe_get(arg.data, arg.keys, arg.default)]
    /\ UNCHANGED <<nodes, edges, pc, filesLeft, refIn, refOut, errorLogged,
                   store, dirExists, listing, arg, conn, calls>>

NextSafeGet == SafeGet

SpecSafeGet == InitSafeGet /\ [][NextSafeGet]_vars

\* C24: _safe_get returns the default whenever the key path does not lead
\* to a value: a name on something that is not a record or has no such
\* member, an index on something that is not a list or is too short, or
\* keys left over on a scalar; it returns something else only when the
\* whole path resolves.
C24_SafeGetDefault ==
    (pc = "safe_get" /\ result # <<>>) =>
        (~Resolve(arg.data, arg.keys, 1).found => result.value = arg.default)

\* the two reference forms, read generously: any string that starts with
\* "urn:uuid:", and any string with a "/" in it
UrnForm(s) == OccursAt(s, URN, 1)

PathForm(s) == Contains(s, <<"/">>)

\* C25: extract_reference_id returns a string that has neither reference
\* form as it is; in particular a string without "/" that has "urn:uuid:"
\* only after its first character comes back unchanged.
C25_OtherStringsUnchanged ==
    (pc = "ref" /\ refOut # NULL /\ refIn # NULL) =>
        ((~UrnForm(refIn) /\ ~PathForm(refIn)) => refOut = refIn)

(***************************************************************************)
(* process_directory on a directory whose conditions share an onset        *)
(***************************************************************************)
\* one patient and three conditions of that patient, two of them with the
\* same onset
TieResources ==
    {Resource("Patient", <<"a">>, NULL, NULL, NULL, NULL),
     Resource("Condition", <<"c", "1">>, Onset2020, Ref(<<"a">>), NULL, NULL),
     Resource("Condition", <<"c", "2">>, Onset2020, Ref(<<"a">>), NULL, NULL),
     Resource("Condition", <<"c", "3">>, Onset2021, Ref(<<"a">>), NULL, NULL)}

TieBundles == BundlesOver(TieResources)

ProcessTieFile == ProcessFileOf(TieBundles)

NextTie == ProcessTieFile \/ SkipFile \/ Relationships \/ Temporal

SpecTie == Init /\ [][NextTie]_vars

\* the conditions a relationship of the type leads to from patient p
Targets(p, type) == {e.dst : e \in OutEdges(p, type)}

\* C26: after a batch, for a patient with two or more dated conditions,
\* also when some of them share an onset: the condition FIRSTCONDITION
\* points to has no incoming NEXTCONDITION, the condition LATESTCONDITION
\* points to has no outgoing NEXTCONDITION, and the two are different
\* nodes.
C26_TiesOneOrdering ==
    pc = "done" =>
        \A p \in Patients :
            Cardinality(DatedConditions(p)) >= 2 =>
                /\ \A f \in Targets(p, "FIRSTCONDITION") :
                      \A e \in EdgesOf(edges, "NEXTCONDITION") : e.dst # f
                /\ \A l \in Targets(p, "LATESTCONDITION") :
                      \A e \in EdgesOf(edges, "NEXTCONDITION") : e.src # l
                /\ Targets(p, "FIRSTCONDITION")
                      \cap Targets(p, "LATESTCONDITION") = {}

(***************************************************************************)
(* process_directory run a second time on the same store                   *)
(*                                                                         *)
(* The builder never clears the store on its own, so a second run adds to  *)
(* the graph the first run left.  arg is the directory of the run: <<>>    *)
(* in the first run; the second run's directory holds one file.            *)
(***************************************************************************)
\* one patient and three conditions of that patient with three onsets
RerunResources ==
    {Resource("Patient", <<"a">>, NULL, NULL, NULL, NULL),
     Resource("Condition", <<"c", "1">>, Onset2020, Ref(<<"a">>), NULL, NULL),
     Resource("Condition", <<"c", "2">>, Onset2019, Ref(<<"a">>), NULL, NULL),
     Resource("Condition", <<"c", "3">>, Onset2021, Ref(<<"a">>), NULL, NULL)}

RerunBundles == BundlesOver(RerunResources)

ProcessRerunFile == ProcessFileOf(RerunBundles)

\* process_directory is called again, on a directory with one file
RunAgain ==
    /\ pc = "done"
    /\ arg = <<>>
    /\ arg' = [directory |-> "second"]
    /\ pc' = "files"
    /\ filesLeft' = 1
    /\ UNCHANGED <<nodes, edges, refIn, refOut, errorLogged, store, dirExists,
                   listing, result, conn, calls>>

NextRerun == ProcessRerunFile \/ Relationships \/ Temporal \/ RunAgain

SpecRerun == Init /\ [][NextRerun]_vars

\* C27: when a second run has added a dated condition to a patient of the
\* first run and create_relationships and create_temporal_relationships
\* have run again, the patient still has exactly one FIRSTCONDITION and one
\* LATESTCONDITION relationship and its N dated conditions N - 1
\* NEXTCONDITION relationships: no relationship of the first run is left
\* over.
C27_ExactAfterRerun ==
    (pc = "done" /\ arg # <<>>) =>
        \A p \in Patients :
            LET D == DatedConditions(p)
            IN Cardinality(D) >= 1 =>
                 /\ OutCount(p, "FIRSTCONDITION") = 1
                 /\ OutCount(p, "LATESTCONDITION") = 1
                 /\ BagSize(edges, ChainEdges(D)) = Cardinality(D) - 1

(***************************************************************************)
(* Upserts of the same node from different records                         *)
(*                                                                         *)
(* arg is the entry list of the file read last.                            *)
(***************************************************************************)
\* a patient, a condition with the patient's id, and records of condition
\* c1 with and without onset and subject
UpsertResources ==
    {Resource("Patient", <<"a">>, NULL, NULL, NULL, NULL),
     Resource("Condition", <<"a">>, Onset2019, Ref(<<"a">>), NULL, NULL)}
    \cup {Resource("Condition", <<"c", "1">>, onset, subject, NULL, NULL) :
            onset \in {Onset2020, NULL}, subject \in {Ref(<<"a">>), NULL}}

UpsertBundles == BundlesOver(UpsertResources)

\* one iteration of the loop over the files, the file's entries kept in arg
UpsertFile ==
    /\ pc = "files"
    /\ filesLeft > 0
    /\ store = "up"
    /\ \E bundle \in UpsertBundles :
          LET r == process_fhir_bundle(nodes, ParsedFile("Bundle", bundle))
          IN /\ nodes' = r.nodes
             /\ errorLogged' = (errorLogged \/ ~ r.ok)
             /\ arg' = bundle
    /\ filesLeft' = filesLeft - 1
    /\ UNCHANGED <<edges, pc, refIn, refOut, store, dirExists, listing,
                   result, conn, calls>>

NextUpsert == UpsertFile

SpecUpsert == Init /\ [][NextUpsert]_vars

\* the parameters of the last upsert among rs of the node with this key
LastRecord(rs, key) ==
    LET idx == {i \in 1..Len(rs) : Key(NodeData(rs[i])) = key}
    IN NodeData(rs[CHOOSE i \in idx : \A j \in idx : j <= i])

\* C28: when a file upserts a node, whether the node is new, exists from an
\* earlier file or is upserted twice by the file itself, the node's
\* attributes afterwards are exactly those extracted from the last record
\* for it (an attribute the earlier record had and the later lacks is
\* gone), there is one such node, and every node the file has no record for
\* is as it was.
C28_LastWriterWins ==
    [][(pc = "files" /\ filesLeft' = filesLeft - 1) =>
          LET rs == PassOrder(arg', 1)
              keys == {Key(NodeData(rs[i])) : i \in 1..Len(rs)}
          IN /\ \A k \in keys :
                   /\ LastRecord(rs, k) \in DOMAIN nodes'
                   /\ nodes'[LastRecord(rs, k)] = 1
                   /\ \A m \in DOMAIN nodes' :
                         Key(m) = k => m = LastRecord(rs, k)
             /\ \A n \in DOMAIN nodes :
                   Key(n) \notin keys => (n \in DOMAIN nodes' /\ nodes'[n] = nodes[n])
             /\ \A n \in DOMAIN nodes' :
                   Key(n) \notin keys => n \in DOMAIN nodes]_vars

\* condition c1 has been upserted with onset and subject and then, by the
\* file read last, without them, next to the patient and the condition
\* that share the id "a"
C28_Witness ==
    /\ arg = <<Resource("Condition", <<"c", "1">>, Onset2020, Ref(<<"a">>),
                        NULL, NULL),
               Resource("Condition", <<"c", "1">>, NULL, NULL, NULL, NULL)>>
    /\ Node("Condition", <<"c", "1">>, NULL, NULL, NULL, NULL) \in DOMAIN nodes
    /\ Node("Patient", <<"a">>, NULL, NULL, NULL, NULL) \in DOMAIN nodes
    /\ Node("Condition", <<"a">>, Onset2019, Ref(<<"a">>), NULL, NULL)
          \in DOMAIN nodes

(***************************************************************************)
(* The first injector (fhir_neo4j_injector.py)                             *)
(*                                                                         *)
(* inject_fhir_bundle visits the entries once, in the order of the entry   *)
(* list.  Each inject_* method upserts the resource's node with MERGE and  *)
(* then links it: MATCH the referenced node by id, MERGE the relationship. *)
(* A MATCH that finds no node yields no row, and nothing is merged.  The   *)
(* relationships carry no property.                                        *)
(***************************************************************************)
\* subject.get("reference", "").replace("urn:uuid:", "")
V1Reference(ref) == RemoveUrn(GetOrEmpty(ref))

\* `if not resource_id: return`
V1NoId(r) == r.id = NULL \/ r.id = <<>>

\* MATCH (a:label {id: $id}) MATCH (b) MERGE (a)-[:type]->(b), run when the
\* id is not empty
V1Link(ns, es, type, label, id, dst) ==
    IF id = <<>> THEN es
    ELSE MergeEdges(es, {Edge(type, a, dst, NULL) :
                            a \in {n \in NodesOf(ns, label) : n.id = id}})

\* the node of a resource: none of the references is stored on it
v1_node_data(r) ==
    Node(r.resourceType, r.id,
         IF r.resourceType = "Condition" THEN GetOrEmpty(r.onsetDateTime)
         ELSE NULL,
         NULL, NULL, NULL)

inject_patient(ns, es, r) ==
    IF V1NoId(r) THEN [nodes |-> ns, edges |-> es]
    ELSE [nodes |-> MergeNode(ns, v1_node_data(r)), edges |-> es]

inject_encounter(ns, es, r) ==
    IF V1NoId(r) THEN [nodes |-> ns, edges |-> es]
    ELSE LET ns1 == MergeNode(ns, v1_node_data(r))
         IN [nodes |-> ns1,
             edges |-> V1Link(ns1, es, "HAS_ENCOUNTER", "Patient",
                              V1Reference(r.subject), v1_node_data(r))]

\* inject_condition and inject_observation: the link to the patient, then
\* the link to the encounter
V1InjectLinked(ns, es, r, type) ==
    IF V1NoId(r) THEN [nodes |-> ns, edges |-> es]
    ELSE LET ns1 == MergeNode(ns, v1_node_data(r))
             es1 == V1Link(ns1, es, type, "Patient", V1Reference(r.subject),
                           v1_node_data(r))
         IN [nodes |-> ns1,
             edges |-> V1Link(ns1, es1, type, "Encounter",
                              V1Reference(r.encounter), v1_node_data(r))]

inject_condition(ns, es, r) == V1InjectLinked(ns, es, r, "HAS_CONDITION")

inject_observation(ns, es, r) == V1InjectLinked(ns, es, r, "HAS_OBSERVATION")

\* the loop of inject_fhir_bundle from the k-th entry on
RECURSIVE V1InjectFrom(_, _, _, _)
V1InjectFrom(ns, es, bundle, k) ==
    IF k > Len(bundle) THEN [nodes |-> ns, edges |-> es]
    ELSE LET r == bundle[k]
             g == CASE r.resourceType = "Patient" -> inject_patient(ns, es, r)
                    [] r.resourceType = "Encounter" ->
                          inject_encounter(ns, es, r)
                    [] r.resourceType = "Condition" ->
                          inject_condition(ns, es, r)
                    [] r.resourceType = "Observation" ->
                          inject_observation(ns, es, r)
                    [] OTHER -> [nodes |-> ns, edges |-> es]
         IN V1InjectFrom(g.nodes, g.edges, bundle, k + 1)

\* inject_fhir_bundle on a parsed object whose resourceType is "Bundle"
inject_fhir_bundle(ns, es, bundle) == V1InjectFrom(ns, es, bundle, 1)

V1Resources ==
    {Resource("Patient", <<"a">>, NULL, NULL, NULL, NULL),
     Resource("Encounter", <<"x">>, NULL, Ref(<<"a">>), NULL, NULL),
     Resource("Condition", <<"c">>, Onset2020, Ref(<<"a">>), Ref(<<"x">>),
              NULL),
     Resource("Observation", <<"o">>, NULL, Ref(<<"a">>), Ref(<<"x">>), NULL),
     Resource("Procedure", <<"q">>, NULL, Ref(<<"a">>), NULL, NULL)}

V1Bundles == BundlesOver(V1Resources)

\* one iteration of the loop of inject_from_directory on a file that
\* parses: inject_from_file, which raises for a wrong marker; the loop logs
\* what it raises and goes on.  arg is the entry list of the bundle
\* injected last.
InjectFileV1 ==
    /\ pc = "files"
    /\ filesLeft > 0
    /\ \E marker \in Markers, bundle \in V1Bundles :
          IF marker # "Bundle"
          THEN /\ errorLogged' = TRUE
               /\ UNCHANGED <<nodes, edges, arg>>
          ELSE LET g == inject_fhir_bundle(nodes, edges, bundle)
               IN /\ nodes' = g.nodes
                  /\ edges' = g.edges
                  /\ arg' = bundle
                  /\ UNCHANGED errorLogged
    /\ filesLeft' = filesLeft - 1
    /\ UNCHANGED <<pc, refIn, refOut, store, dirExists, listing, result, conn, calls>>

\* the loop is over: inject_from_directory returns
ReturnV1 ==
    /\ pc = "files"
    /\ filesLeft = 0
    /\ pc' = "done"
    /\ UNCHANGED <<nodes, edges, filesLeft, refIn, refOut, errorLogged, store,
                   dirExists, listing, arg, result, conn, calls>>

\* one iteration on a file json.load rejects: inject_from_file logs and
\* raises again, the loop logs and goes on
SkipFileV1 ==
    /\ pc = "files"
    /\ filesLeft > 0
    /\ filesLeft' = filesLeft - 1
    /\ errorLogged' = TRUE
    /\ UNCHANGED <<nodes, edges, pc, refIn, refOut, store, dirExists, listing,
                   arg, result, conn, calls>>

NextV1 == InjectFileV1 \/ SkipFileV1 \/ ReturnV1

SpecV1 == Init /\ [][NextV1]_vars

\* the relationship types inject_* gives a resource of the type
V1LinkType(type) ==
    CASE type = "Encounter" -> "HAS_ENCOUNTER"
      [] type = "Condition" -> "HAS_CONDITION"
      [] OTHER -> "HAS_OBSERVATION"

\* C29: whatever the order of the entries of the bundle injected last, an
\* Encounter, Condition or Observation of the bundle is linked from the
\* Patient of the bundle its subject names, and a Condition or Observation
\* from the Encounter of the bundle its encounter reference names.
C29_OrderIndependentEdges ==
    \A i, j \in 1..Len(arg) :
        LET r == arg[i]
            q == arg[j]
        IN (r.resourceType \in {"Encounter", "Condition", "Observation"}
              /\ ~V1NoId(r) /\ ~V1NoId(q)) =>
               /\ (q.resourceType = "Patient" /\ V1Reference(r.subject) = q.id)
                     => Edge(V1LinkType(r.resourceType), v1_node_data(q),
                             v1_node_data(r), NULL) \in DOMAIN edges
               /\ (q.resourceType = "Encounter" /\ r.resourceType # "Encounter"
                     /\ V1Reference(r.encounter) = q.id)
                     => Edge(V1LinkType(r.resourceType), v1_node_data(q),
                             v1_node_data(r), NULL) \in DOMAIN edges

(***************************************************************************)
(* main() of src/main.py                                                   *)
(*                                                                         *)
(* arg is the config module main() imports: config.py as the repository    *)
(* ships it defines DATA_DIRECTORY, and a site may edit the file.  The     *)
(* `with` statement calls __exit__, which closes the driver, however the   *)
(* block is left: at its end, by `return` or by an exception.              *)
(***************************************************************************)
\* config.py as shipped
ShippedConfig == [DATA_DIRECTORY |-> "data"]

\* a config.py to which a site has added the name main() reads
Configs == {ShippedConfig, [DATA_DIRECTORY |-> "data", DATA_DIR |-> "data"]}

\* a patient, an encounter, a condition of the patient with an onset and
\* one without
MainResources ==
    {Resource("Patient", <<"a">>, NULL, NULL, NULL, NULL),
     Resource("Encounter", <<"x">>, NULL, Ref(<<"a">>), NULL, NULL),
     Resource("Condition", <<"c", "1">>, Onset2020, Ref(<<"a">>), NULL, NULL),
     Resource("Condition", <<"c", "2">>, NULL, Ref(<<"a">>), NULL, NULL)}

MainBundles == BundlesOver(MainResources)

\* the state when the `with` block is entered: the driver is constructed
InitMain ==
    /\ nodes = EmptyGraphBag
    /\ edges = EmptyGraphBag
    /\ pc = "main"
    /\ filesLeft = 0
    /\ refIn = NULL
    /\ refOut = NULL
    /\ errorLogged = FALSE
    /\ store = "up"
    /\ dirExists \in BOOLEAN
    /\ listing = <<>>
    /\ arg \in Configs
    /\ result = <<>>
    /\ conn = "open"
    /\ calls = <<>>

\* builder.create_constraints(): each statement's exception is caught
MainCreateConstraints ==
    /\ pc = "main"
    /\ calls' = Append(calls, "create_constraints")
    /\ pc' = "config"
    /\ UNCHANGED <<nodes, edges, filesLeft, refIn, refOut, errorLogged, store,
                   dirExists, listing, arg, result, conn>>

\* data_dir = Path(config.DATA_DIR): AttributeError when config has no such
\* name; then the test of data_dir.exists(), and the call of
\* process_directory
MainDataDir ==
    /\ pc = "config"
    /\ IF "DATA_DIR" \notin DOMAIN arg
       THEN /\ pc' = "raised"
            /\ conn' = "closed"
            /\ UNCHANGED <<errorLogged, calls, filesLeft>>
       ELSE IF ~ dirExists
            THEN /\ errorLogged' = TRUE
                 /\ pc' = "returned"
                 /\ conn' = "closed"
                 /\ UNCHANGED <<calls, filesLeft>>
            ELSE /\ calls' = Append(calls, "process_directory")
                 /\ pc' = "files"
                 /\ filesLeft' \in 0..MaxFiles
                 /\ UNCHANGED <<errorLogged, conn>>
    /\ UNCHANGED <<nodes, edges, refIn, refOut, store, dirExists, listing,
                   arg, result>>

ProcessMainFile == ProcessFileOf(MainBundles)

\* process_directory has returned: builder.get_summary(), the end of the
\* block
MainSummary ==
    /\ pc = "done"
    /\ calls' = Append(calls, "get_summary")
    /\ result' = get_summary(nodes)
    /\ conn' = "closed"
    /\ pc' = "returned"
    /\ UNCHANGED <<nodes, edges, filesLeft, refIn, refOut, errorLogged, store,
                   dirExists, listing, arg>>

\* an exception has left process_directory: it leaves the block and main()
MainRaise ==
    /\ pc = "failed"
    /\ conn' = "closed"
    /\ pc' = "raised"
    /\ UNCHANGED <<nodes, edges, filesLeft, refIn, refOut, errorLogged, store,
                   dirExists, listing, arg, result, calls>>

NextMain ==
    \/ MainCreateConstraints
    \/ MainDataDir
    \/ ProcessMainFile
    \/ SkipFile
    \/ Relationships
    \/ Temporal
    \/ MainSummary
    \/ MainRaise

SpecMain == InitMain /\ [][NextMain]_vars

\* C30: when main() has ended with the configuration the repository ships:
\* the connection is closed; if the data directory exists, main() has
\* called process_directory and then get_summary; if it does not, main()
\* has logged an error and has not called process_directory.
C30_MainRunsBatch ==
    (pc \in {"returned", "raised"} /\ arg = ShippedConfig) =>
        /\ conn = "closed"
        /\ dirExists =>
              calls = <<"create_constraints", "process_directory",
                        "get_summary">>
        /\ ~ dirExists =>
              /\ errorLogged
              /\ \A i \in 1..Len(calls) : calls[i] # "process_directory"

====
